---- MODULE Spec2Model ----
(***************************************************************************)
(* The multiplayer room coordinator of wiki-journey (server/socket.ts,     *)
(* setupSocket): the registry `rooms`, the socket.io room membership that  *)
(* socket.join builds, and one action per inbound event handler.           *)
(* Every handler runs to completion, so every action is one whole handler. *)
(***************************************************************************)
EXTENDS Integers, Sequences, FiniteSets, TLC

\* ------------------------------------------------------------------ bounds
\* Connections (socket ids) that ever exist.
NumConns == 3
\* Room codes Math.random() can draw; a draw may repeat a code in use.
NumRooms == 2
\* Spec: the connections that take part (over all NumRooms room codes).
PairConns == 2
\* SpecWide: the environment sends no join to a room that already lists this
\* many players (SpecCap has no such limit and fills a room).
MaxRoster == 3
\* Spec: the same limit for its two connections.
PairRoster == 2
\* The environment reports no progress for a player whose history is this long.
MaxHist == 2
\* Largest click count a client reports.
MaxClicks == 1
\* Largest index Math.floor(Math.random() * 10) is explored at.
MaxDraw == 0
\* SpecCap: the connections that take part.
CapConns == 2

\* ------------------------------------------------------- program constants
\* part_002:296  if (room.players.length >= 8)
MaxPlayers == 8
\* part_002:327  if (room.players.length < 2)
MinPlayers == 2

ADJECTIVES ==
    <<"Neon", "Cyber", "Mega", "Super", "Ultra", "Quantum", "Pixel", "Techno", "Retro", "Binary">>
ANIMALS ==
    <<"Fox", "Owl", "Wolf", "Bear", "Cat", "Dog", "Hawk", "Eagle", "Shark", "Dragon">>

\* ------------------------------------------------------------- input sets
Conns == 1..NumConns
RoomIds == 1..NumRooms
\* What the clients send.  Each client keeps the username it typed: the first
\* types "Ann", the second none (its name is generated), the others "Bob".
UsernameOf(c) == IF c = 1 THEN "Ann" ELSE IF c = 2 THEN "" ELSE "Bob"
StartArticles == {"Dog"}
TargetArticles == {"Cat"}
Articles == {"Cat"}
ClickVals == 1..MaxClicks
Paths == {<<"Dog", "Cat">>}
\* The values Math.floor(Math.random() * n) is explored at (JS indices, from 0).
RandomIndex(n) == {i \in 0..(n - 1) : i <= MaxDraw}

\* An optional field that was never assigned (startArticle?, targetArticle?).
Undefined == "<undefined>"

VARIABLES
    rooms,      \* const rooms: Record<string, Room>: a function on the room ids in use
    sockRooms,  \* socket.io's rooms: room id -> the sockets that socket.join()ed it
    status,     \* each connection: "new" (not yet connected), "open", "closed"
    uncaught,   \* TRUE once a handler threw an error nothing catches
    ev,         \* the inbound event handled by the last step
    ack,        \* the replies the last handler gave through its callback
    out         \* the broadcasts the last handler emitted

vars == <<rooms, sockRooms, status, uncaught, ev, ack, out>>

\* ---------------------------------------------------------------- helpers
Range(s) == {s[i] : i \in 1..Len(s)}

\* players.filter(id => id !== c)
RECURSIVE Without(_, _)
Without(s, c) ==
    IF s = <<>> THEN <<>>
    ELSE IF Head(s) = c THEN Without(Tail(s), c)
    ELSE <<Head(s)>> \o Without(Tail(s), c)

\* `${adj} ${animal}` for the two drawn indices
GeneratedName(i, j) == ADJECTIVES[i + 1] \o " " \o ANIMALS[j + 1]
generateName == {GeneratedName(i, j) : i \in RandomIndex(Len(ADJECTIVES)), j \in RandomIndex(Len(ANIMALS))}

\* username || generateName(): the names the handler may end up with
PlayerNames(username) == IF username # "" THEN {username} ELSE generateName

\* Mutant: the new PlayerState starts with one click.
NewPlayerStateClicked(c, name) ==
    [id |-> c, name |-> name, clicks |-> 1, currentArticle |-> "", history |-> <<>>]

\* The PlayerState literal of create_room and join_room
NewPlayerState(c, name) ==
    [id |-> c, name |-> name, clicks |-> 0, currentArticle |-> "", history |-> <<>>]

\* room.players.map(pid => ({ id: pid, name: room.playerStates[pid].name }))
Roster(room) ==
    [i \in 1..Len(room.players) |->
        [id |-> room.players[i], name |-> room.playerStates[room.players[i]].name]]

\* io.to(roomId): every socket in the socket.io room
IoTo(r) == sockRooms[r]
\* socket.to(roomId): every socket in the socket.io room except the sender
SocketTo(c, r) == sockRooms[r] \ {c}

\* A field an event does not carry.
None == "<none>"
\* connection and disconnect name no room.
NoRoom == 0
\* The inbound event: its name, its sender, the room it names (for create_room the
\* code drawn) and its payload.
Event(type, c, r) ==
    [type |-> type, conn |-> c, roomId |-> r, username |-> None, start |-> None,
     target |-> None, currentArticle |-> None, clicks |-> -1, path |-> <<>>]

Emit(event, r, to, payload) == [event |-> event, roomId |-> r, to |-> to, payload |-> payload]
Callback(c, payload) == [to |-> c, payload |-> payload]

\* A handler that returns at once: nothing changes, nothing is sent.
Ignore(e) ==
    /\ ev' = e
    /\ ack' = {}
    /\ out' = {}
    /\ UNCHANGED <<rooms, sockRooms, status, uncaught>>

CanSend(c) == ~uncaught /\ status[c] = "open"

\* ------------------------------------------------------------------- Init
Init ==
    /\ rooms = <<>>
    /\ sockRooms = [r \in RoomIds |-> {}]
    /\ status = [c \in Conns |-> "new"]
    /\ uncaught = FALSE
    /\ ev = Event("listen", 0, NoRoom)
    /\ ack = {}
    /\ out = {}

\* ---------------------------------------------------------------- actions
\* io.on("connection", ...): a new socket; ids are never reused.
Connect(c) ==
    /\ ~uncaught
    /\ status[c] = "new"
    /\ \A d \in Conns : d < c => status[d] # "new"
    /\ status' = [status EXCEPT ![c] = "open"]
    /\ ev' = Event("connection", c, NoRoom)
    /\ ack' = {}
    /\ out' = {}
    /\ UNCHANGED <<rooms, sockRooms, uncaught>>

\* socket.on("create_room"): roomId is the random draw, name the resolved name.
CreateRoom(c, roomId, username) ==
    /\ CanSend(c)
    /\ \E playerName \in PlayerNames(username) :
        LET room == [id |-> roomId,
                     players |-> <<c>>,
                     gameState |-> "waiting",
                     startArticle |-> Undefined,
                     targetArticle |-> Undefined,
                     playerStates |-> (c :> NewPlayerState(c, playerName))]
        IN /\ rooms' = [r \in DOMAIN rooms \cup {roomId} |->
                            IF r = roomId THEN room ELSE rooms[r]]
           /\ sockRooms' = [sockRooms EXCEPT ![roomId] = @ \cup {c}]
           /\ ack' = {Callback(c, [roomId |-> roomId,
                                   players |-> <<[id |-> c, name |-> playerName]>>])}
    /\ ev' = [Event("create_room", c, roomId) EXCEPT !.username = username]
    /\ out' = {}
    /\ UNCHANGED <<status, uncaught>>

\* Mutant: the capacity test off by one (> for >=).
IsFullOffByOne(room) == Len(room.players) > MaxPlayers

\* if (room.players.length >= 8)
IsFull(room) == Len(room.players) >= MaxPlayers

\* Mutant: the capacity test moved ahead of the gameState test.
JoinRefusalCapacityFirst(roomId) ==
    IF roomId \notin DOMAIN rooms THEN "Room not found"
    ELSE IF IsFull(rooms[roomId]) THEN "Room is full"
    ELSE IF rooms[roomId].gameState # "waiting" THEN "Game already started"
    ELSE ""

\* Mutant: an unknown code answered like a started game.
JoinRefusalUnknownAsStarted(roomId) ==
    IF roomId \notin DOMAIN rooms THEN "Game already started"
    ELSE IF rooms[roomId].gameState # "waiting" THEN "Game already started"
    ELSE IF IsFull(rooms[roomId]) THEN "Room is full"
    ELSE ""

\* Mutant: a full room answered like a started game.
JoinRefusalFullAsStarted(roomId) ==
    IF roomId \notin DOMAIN rooms THEN "Room not found"
    ELSE IF rooms[roomId].gameState # "waiting" THEN "Game already started"
    ELSE IF IsFull(rooms[roomId]) THEN "Game already started"
    ELSE ""

\* The three early returns of join_room, in the order the handler tests them;
\* "" when the join goes through.
JoinRefusal(roomId) ==
    IF roomId \notin DOMAIN rooms THEN "Room not found"
    ELSE IF rooms[roomId].gameState # "waiting" THEN "Game already started"
    ELSE IF IsFull(rooms[roomId]) THEN "Room is full"
    ELSE ""

\* Mutant: the joiner put at the head of the list.
AddPlayerFirst(players, c) == <<c>> \o players

\* room.players.push(socket.id)
AddPlayer(players, c) == Append(players, c)

\* Mutant: the roster taken before the push.
AllPlayersStale(room, joined) == Roster(room)

\* const allPlayers = room.players.map(...), computed after the push
AllPlayers(room, joined) == Roster(joined)

\* socket.on("join_room")
JoinRoom(c, roomId, username) ==
    /\ CanSend(c)
    /\ ev' = [Event("join_room", c, roomId) EXCEPT !.username = username]
    /\ IF JoinRefusal(roomId) # "" THEN
            /\ ack' = {Callback(c, [error |-> JoinRefusal(roomId)])}
            /\ out' = {}
            /\ UNCHANGED <<rooms, sockRooms>>
       ELSE \E playerName \in PlayerNames(username) :
            LET room == rooms[roomId]
                joined == [room EXCEPT
                             !.players = AddPlayer(@, c),
                             !.playerStates = [p \in DOMAIN @ \cup {c} |->
                                 IF p = c THEN NewPlayerState(c, playerName) ELSE @[p]]]
                allPlayers == AllPlayers(room, joined)
            IN /\ rooms' = [rooms EXCEPT ![roomId] = joined]
               /\ sockRooms' = [sockRooms EXCEPT ![roomId] = @ \cup {c}]
               /\ ack' = {Callback(c, [success |-> TRUE, roomId |-> roomId,
                                       players |-> allPlayers])}
               /\ out' = {Emit("player_joined", roomId, sockRooms'[roomId],
                               [players |-> allPlayers])}
    /\ UNCHANGED <<status, uncaught>>

\* Mutant: the reset appends the start article to the history it finds.
ResetStatsKeepHistory(room, start) ==
    [p \in DOMAIN room.playerStates |->
        IF p \in Range(room.players)
        THEN [room.playerStates[p] EXCEPT
                !.clicks = 0, !.currentArticle = start, !.history = Append(@, start)]
        ELSE room.playerStates[p]]

\* The forEach of start_game: every listed player that has a PlayerState
ResetStats(room, start) ==
    [p \in DOMAIN room.playerStates |->
        IF p \in Range(room.players)
        THEN [room.playerStates[p] EXCEPT
                !.clicks = 0, !.currentArticle = start, !.history = <<start>>]
        ELSE room.playerStates[p]]

\* Mutant: the guard lets a room of one player start.
TooFewPlayersLax(room) == Len(room.players) < 1

\* if (room.players.length < 2) return;
TooFewPlayers(room) == Len(room.players) < MinPlayers

\* socket.on("start_game")
StartGame(c, roomId, start, target) ==
    /\ CanSend(c)
    /\ LET e == [Event("start_game", c, roomId) EXCEPT !.start = start, !.target = target]
       IN IF roomId \notin DOMAIN rooms THEN Ignore(e)
          ELSE IF TooFewPlayers(rooms[roomId]) THEN Ignore(e)
          ELSE /\ ev' = e
               /\ rooms' = [rooms EXCEPT ![roomId] = [@ EXCEPT
                               !.startArticle = start,
                               !.targetArticle = target,
                               !.gameState = "playing",
                               !.playerStates = ResetStats(rooms[roomId], start)]]
               /\ out' = {Emit("game_started", roomId, IoTo(roomId),
                               [start |-> start, target |-> target])}
               /\ ack' = {}
               /\ UNCHANGED <<sockRooms, status, uncaught>>

\* Mutant: io.to(roomId) where the handler has socket.to(roomId).
ProgressAudienceAll(c, roomId) == IoTo(roomId)

\* The recipients of opponent_progress: socket.to(roomId)
ProgressAudience(c, roomId) == SocketTo(c, roomId)

\* Mutant: the gameState half of the test dropped.
NotPlayingUnknownOnly(roomId) == roomId \notin DOMAIN rooms

\* if (!room || room.gameState !== "playing") return;  (update_progress, game_win)
NotPlaying(roomId) == roomId \notin DOMAIN rooms \/ rooms[roomId].gameState # "playing"

\* Mutant: the broadcast goes out although the sender has no PlayerState.
NoPlayerStateBroadcast(e, c, roomId) ==
    /\ ev' = e
    /\ ack' = {}
    /\ out' = {Emit("opponent_progress", roomId, SocketTo(c, roomId),
                    [playerId |-> c, name |-> Undefined,
                     currentArticle |-> e.currentArticle, clicks |-> e.clicks])}
    /\ UNCHANGED <<rooms, sockRooms, status, uncaught>>

\* if (player) { ... } has no else: a sender without a PlayerState is ignored.
NoPlayerState(e, c, roomId) == Ignore(e)

\* The body of the update_progress handler.
OnUpdateProgress(c, roomId, currentArticle, clicks) ==
    LET e == [Event("update_progress", c, roomId) EXCEPT
                 !.currentArticle = currentArticle, !.clicks = clicks]
    IN IF NotPlaying(roomId) THEN Ignore(e)
       ELSE IF c \notin DOMAIN rooms[roomId].playerStates THEN NoPlayerState(e, c, roomId)
       ELSE LET player == rooms[roomId].playerStates[c]
            IN /\ ev' = e
               /\ rooms' = [rooms EXCEPT ![roomId].playerStates[c] = [@ EXCEPT
                               !.currentArticle = currentArticle,
                               !.clicks = clicks,
                               !.history = Append(@, currentArticle)]]
               /\ out' = {Emit("opponent_progress", roomId, ProgressAudience(c, roomId),
                               [playerId |-> c, name |-> player.name,
                                currentArticle |-> currentArticle, clicks |-> clicks])}
               /\ ack' = {}
               /\ UNCHANGED <<sockRooms, status, uncaught>>

\* socket.on("update_progress"), sent by an open connection
UpdateProgress(c, roomId, currentArticle, clicks) ==
    /\ CanSend(c)
    /\ OnUpdateProgress(c, roomId, currentArticle, clicks)

\* socket.on("update_progress") run for a packet of a connection whose
\* disconnect handler has already run.  Whether socket.io still dispatches such
\* a packet depends on its version; the handler itself does not look at the
\* connection's status.
LateProgress(c, roomId, currentArticle, clicks) ==
    /\ ~uncaught
    /\ status[c] = "closed"
    /\ OnUpdateProgress(c, roomId, currentArticle, clicks)

\* Mutant: socket.to(roomId) where the handler has io.to(roomId).
WinAudienceOthers(c, roomId) == SocketTo(c, roomId)

\* The recipients of player_won: io.to(roomId)
WinAudience(c, roomId) == IoTo(roomId)

\* Mutant: the line the handler has commented out, room.gameState = "finished".
StateAfterWinFinished(room) == "finished"

\* What game_win assigns to room.gameState: nothing ("Do NOT end game for everyone")
StateAfterWin(room) == room.gameState

\* socket.on("game_win"); room.playerStates[socket.id].name throws a TypeError
\* when the sender has no PlayerState in the room.
GameWin(c, roomId, path) ==
    /\ CanSend(c)
    /\ LET e == [Event("game_win", c, roomId) EXCEPT !.path = path]
       IN IF NotPlaying(roomId) THEN Ignore(e)
          ELSE IF c \notin DOMAIN rooms[roomId].playerStates THEN
               /\ ev' = e
               /\ uncaught' = TRUE
               /\ ack' = {}
               /\ out' = {}
               /\ UNCHANGED <<rooms, sockRooms, status>>
          ELSE LET winnerName == rooms[roomId].playerStates[c].name
               IN /\ ev' = e
                  /\ rooms' = [rooms EXCEPT ![roomId].gameState = StateAfterWin(rooms[roomId])]
                  /\ out' = {Emit("player_won", roomId, WinAudience(c, roomId),
                                  [winnerId |-> c, winnerName |-> winnerName, path |-> path])}
                  /\ ack' = {}
                  /\ UNCHANGED <<sockRooms, status, uncaught>>

\* Mutant: socket.to(roomId) where the handler has io.to(roomId).
LobbyAudienceOthers(c, roomId) == SocketTo(c, roomId)

\* The recipients of reset_to_lobby: io.to(roomId)
LobbyAudience(c, roomId) == IoTo(roomId)

\* socket.on("return_to_lobby")
ReturnToLobby(c, roomId) ==
    /\ CanSend(c)
    /\ LET e == Event("return_to_lobby", c, roomId)
       IN IF roomId \notin DOMAIN rooms THEN Ignore(e)
          ELSE /\ ev' = e
               /\ rooms' = [rooms EXCEPT ![roomId].gameState = "waiting"]
               /\ out' = {Emit("reset_to_lobby", roomId, LobbyAudience(c, roomId), <<>>)}
               /\ ack' = {}
               /\ UNCHANGED <<sockRooms, status, uncaught>>

\* Mutant: the filter hands the remaining players back in reverse order.
RemovePlayerReversed(room, c) ==
    LET w == Without(room.players, c)
    IN [room EXCEPT !.players = [i \in 1..Len(w) |-> w[Len(w) + 1 - i]]]

\* What the disconnect handler leaves of one room that lists c:
\* players filtered; playerStates is not touched.
RemovePlayer(room, c) == [room EXCEPT !.players = Without(@, c)]

\* Mutant: the empty room is never deleted.
IsEmptyRoomNever(room) == FALSE

\* if (room.players.length === 0) delete rooms[roomId]
IsEmptyRoom(room) == Len(room.players) = 0

\* Mutant: the walk stops at the first room that lists the socket.
ListedRoomsFirstOnly(c) ==
    {r \in DOMAIN rooms :
        /\ c \in Range(rooms[r].players)
        /\ \A q \in DOMAIN rooms : c \in Range(rooms[q].players) => r <= q}

\* for (const roomId in rooms) if (room.players.includes(socket.id))
ListedRooms(c) == {r \in DOMAIN rooms : c \in Range(rooms[r].players)}

\* socket.on("disconnect"): socket.io has taken the socket out of all its rooms
\* before the handler runs; the handler walks every room of the registry.
Disconnect(c) ==
    /\ CanSend(c)
    /\ LET listed == ListedRooms(c)
           left == [r \in RoomIds |-> sockRooms[r] \ {c}]
           after(r) == IF r \in listed THEN RemovePlayer(rooms[r], c) ELSE rooms[r]
           kept == {r \in DOMAIN rooms : ~IsEmptyRoom(after(r))}
       IN /\ status' = [status EXCEPT ![c] = "closed"]
          /\ sockRooms' = left
          /\ rooms' = [r \in kept |-> after(r)]
          /\ out' = {Emit("player_left", r, left[r],
                          [playerId |-> c, players |-> Roster(after(r))]) : r \in listed}
    /\ ev' = Event("disconnect", c, NoRoom)
    /\ ack' = {}
    /\ UNCHANGED uncaught

\* ------------------------------------------------------------ environment
\* The events a client sends, within the bounds.
RosterBelow(r, n) == r \in DOMAIN rooms => Len(rooms[r].players) < n
HistoryBelow(c, r, n) ==
    (r \in DOMAIN rooms /\ c \in DOMAIN rooms[r].playerStates)
        => Len(rooms[r].playerStates[c].history) < n

\* Connections CS send every event, naming the room codes RS; joins stop at maxRoster.
Traffic(CS, RS, maxRoster) ==
    \/ \E c \in CS : Connect(c)
    \/ \E c \in CS, r \in RS : CreateRoom(c, r, UsernameOf(c))
    \/ \E c \in CS, r \in RS :
          RosterBelow(r, maxRoster) /\ JoinRoom(c, r, UsernameOf(c))
    \/ \E c \in CS, r \in RS, s \in StartArticles, t \in TargetArticles :
          StartGame(c, r, s, t)
    \/ \E c \in CS, r \in RS, a \in Articles, k \in ClickVals :
          HistoryBelow(c, r, MaxHist) /\ UpdateProgress(c, r, a, k)
    \/ \E c \in CS, r \in RS, p \in Paths : GameWin(c, r, p)
    \/ \E c \in CS, r \in RS : ReturnToLobby(c, r)
    \/ \E c \in CS : Disconnect(c)

\* Two connections over every room code.
Next == Traffic(1..PairConns, RoomIds, PairRoster)
Spec == Init /\ [][Next]_vars

\* Every connection, one room code: rooms of three members.
OneRoom == {1}
NextWide == Traffic(Conns, OneRoom, MaxRoster)
SpecWide == Init /\ [][NextWide]_vars

\* Create, join, start and disconnect only, with no limit on the joins sent:
\* a room fills to MaxPlayers.
NextCap ==
    \/ \E c \in 1..CapConns : Connect(c)
    \/ \E c \in 1..CapConns, r \in OneRoom : CreateRoom(c, r, UsernameOf(c))
    \/ \E c \in 1..CapConns, r \in OneRoom : JoinRoom(c, r, UsernameOf(c))
    \/ \E c \in 1..CapConns, r \in OneRoom, s \in StartArticles, t \in TargetArticles :
          StartGame(c, r, s, t)
    \/ \E c \in 1..CapConns : Disconnect(c)
SpecCap == Init /\ [][NextCap]_vars

\* Two connections, one room code, and the update_progress packets that are
\* handled after their sender's disconnect.
NextLate ==
    \/ Traffic(1..PairConns, OneRoom, PairRoster)
    \/ \E c \in 1..PairConns, r \in OneRoom, a \in Articles, k \in ClickVals :
          HistoryBelow(c, r, MaxHist) /\ LateProgress(c, r, a, k)
SpecLate == Init /\ [][NextLate]_vars

\* The usernames a client may put in create_room and join_room: none, a plain
\* one, blanks only, and one with blanks around it.
RawUsernames == {"", "Ann", " ", " Ann "}

\* Create, join and disconnect with every username, two connections, one room code.
NextNames ==
    \/ \E c \in 1..PairConns : Connect(c)
    \/ \E c \in 1..PairConns, r \in OneRoom, u \in RawUsernames : CreateRoom(c, r, u)
    \/ \E c \in 1..PairConns, r \in OneRoom, u \in RawUsernames :
          RosterBelow(r, PairRoster) /\ JoinRoom(c, r, u)
    \/ \E c \in 1..PairConns : Disconnect(c)
SpecNames == Init /\ [][NextNames]_vars

\* The click counts a client may report: the handler takes any number.
ReportedClicks == (0 - MaxClicks)..(MaxClicks + 1)

\* Rounds of two connections in one room, with every reported click count.
NextClicks ==
    \/ \E c \in 1..PairConns : Connect(c)
    \/ \E c \in 1..PairConns, r \in OneRoom : CreateRoom(c, r, UsernameOf(c))
    \/ \E c \in 1..PairConns, r \in OneRoom :
          RosterBelow(r, PairRoster) /\ JoinRoom(c, r, UsernameOf(c))
    \/ \E c \in 1..PairConns, r \in OneRoom, s \in StartArticles, t \in TargetArticles :
          StartGame(c, r, s, t)
    \/ \E c \in 1..PairConns, r \in OneRoom, a \in Articles, k \in ReportedClicks :
          HistoryBelow(c, r, MaxHist + 1) /\ UpdateProgress(c, r, a, k)
SpecClicks == Init /\ [][NextClicks]_vars

\* ------------------------------------------------------------- properties
\* The connections a room lists.
Members(room) == Range(room.players)
\* The broadcasts of the last handler that carry the event `event`.
Sent(event) == {m \in out : m.event = event}

\* C1: after every event, in every room the keys of playerStates are exactly the
\* connections in players.  The code breaks it: disconnect filters players and
\* leaves the PlayerState behind.
PlayerStatesMatchPlayers ==
    \A r \in DOMAIN rooms : DOMAIN rooms[r].playerStates = Members(rooms[r])

\* C2: a connection is listed in the players of at most one room.  The code
\* breaks it: create_room and join_room never look at the sender's other rooms.
InAtMostOneRoom ==
    \A c \in Conns : Cardinality({r \in DOMAIN rooms : c \in Members(rooms[r])}) <= 1

\* C3: for every sequence of create, join and disconnect events, no room lists
\* more than 8 players.
RosterWithinCapacity ==
    \A r \in DOMAIN rooms : Len(rooms[r].players) <= 8

\* C3 witness: a join was refused as "Room is full" by a room listing 8 players.
FullRoomRefusedJoin ==
    /\ ev.type = "join_room"
    /\ ev.roomId \in DOMAIN rooms
    /\ Len(rooms[ev.roomId].players) = 8
    /\ ack = {Callback(ev.conn, [error |-> "Room is full"])}

\* C4: a join to an existing room that is not waiting fails with "Game already
\* started" (whatever the room's size), the reply goes to the caller alone, the
\* registry and the socket.io rooms are unchanged and nothing is broadcast.
JoinAfterStartRefused ==
    [][(/\ ev'.type = "join_room"
        /\ ev'.roomId \in DOMAIN rooms
        /\ rooms[ev'.roomId].gameState # "waiting")
       => (/\ ack' = {Callback(ev'.conn, [error |-> "Game already started"])}
           /\ out' = {}
           /\ rooms' = rooms
           /\ sockRooms' = sockRooms)]_vars

\* C4 witness: a playing room at capacity has refused a join as "Game already started".
PlayingFullRoomRefusedJoin ==
    /\ ev.type = "join_room"
    /\ ev.roomId \in DOMAIN rooms
    /\ rooms[ev.roomId].gameState = "playing"
    /\ Len(rooms[ev.roomId].players) = 8
    /\ ack = {Callback(ev.conn, [error |-> "Game already started"])}
    /\ out = {}

\* C5: when a member of a playing room reports progress, opponent_progress goes
\* to every other member of the room and never to the sender.
ProgressToOthersOnly ==
    [][(/\ ev'.type = "update_progress"
        /\ ev'.roomId \in DOMAIN rooms
        /\ rooms[ev'.roomId].gameState = "playing"
        /\ ev'.conn \in Members(rooms[ev'.roomId]))
       => (/\ Cardinality(out') = 1
           /\ \A m \in out' :
                /\ m.event = "opponent_progress"
                /\ m.payload.playerId = ev'.conn
                /\ ev'.conn \notin m.to
                /\ Members(rooms'[ev'.roomId]) \ {ev'.conn} \subseteq m.to)]_vars

\* C5 witness: a progress report of a room of three reached the two others.
ProgressReachedTwoOthers ==
    /\ ev.type = "update_progress"
    /\ ev.roomId \in DOMAIN rooms
    /\ Cardinality(Members(rooms[ev.roomId])) = 3
    /\ \E m \in Sent("opponent_progress") :
          /\ m.to = Members(rooms[ev.roomId]) \ {ev.conn}
          /\ Cardinality(m.to) = 2

\* C6: every win event of a member of a playing room yields one player_won with
\* the sender's id and name, delivered to every member, the winner included; the
\* room is left playing, so a later win is handled the same.
WinBroadcastToRoom ==
    [][(/\ ev'.type = "game_win"
        /\ ev'.roomId \in DOMAIN rooms
        /\ rooms[ev'.roomId].gameState = "playing"
        /\ ev'.conn \in Members(rooms[ev'.roomId]))
       => (/\ Cardinality(out') = 1
           /\ \A m \in out' :
                /\ m.event = "player_won"
                /\ m.payload.winnerId = ev'.conn
                /\ m.payload.winnerName = rooms[ev'.roomId].playerStates[ev'.conn].name
                /\ m.payload.path = ev'.path
                /\ ev'.conn \in m.to
                /\ Members(rooms[ev'.roomId]) \subseteq m.to
           /\ ev'.roomId \in DOMAIN rooms'
           /\ rooms'[ev'.roomId].gameState = "playing")]_vars

\* C6 witness: a win of a room of three was broadcast to all three.
WinReachedWholeRoom ==
    /\ ev.type = "game_win"
    /\ ev.roomId \in DOMAIN rooms
    /\ rooms[ev.roomId].gameState = "playing"
    /\ Cardinality(Members(rooms[ev.roomId])) = 3
    /\ \E m \in Sent("player_won") :
          /\ m.payload.winnerId = ev.conn
          /\ m.to = Members(rooms[ev.roomId])

\* A create_room that drew the code r put a new Room object under it.
Replaced(r) == ev'.type = "create_room" /\ ev'.roomId = r

\* C7: a playing room stays playing across every event (progress, win, start,
\* disconnect included); only a return_to_lobby naming it moves it, to waiting.
\* A room is the Room object: the step of a create_room that drew its code
\* replaces the object and is no move of the old room.
PlayingUntilReturnToLobby ==
    [][\A r \in DOMAIN rooms :
          (/\ rooms[r].gameState = "playing"
           /\ r \in DOMAIN rooms'
           /\ ~Replaced(r)
           /\ rooms'[r].gameState # "playing")
          => (/\ ev'.type = "return_to_lobby"
              /\ ev'.roomId = r
              /\ rooms'[r].gameState = "waiting")]_vars

\* C7 witness: a member of a playing room disconnected and the room is still playing.
StillPlayingAfterDisconnect ==
    /\ ev.type = "disconnect"
    /\ \E m \in Sent("player_left") :
          /\ m.roomId \in DOMAIN rooms
          /\ rooms[m.roomId].gameState = "playing"

\* C8: an accepted start (the room exists and lists at least 2 players) with
\* start article S and target T sets every member's clicks to 0, currentArticle to
\* S and history to <<S>>, stores S and T, sets gameState to playing and
\* broadcasts {start, target} to every member.
StartResetsEveryMember ==
    [][(/\ ev'.type = "start_game"
        /\ ev'.roomId \in DOMAIN rooms
        /\ Len(rooms[ev'.roomId].players) >= 2)
       => (/\ ev'.roomId \in DOMAIN rooms'
           /\ rooms'[ev'.roomId].gameState = "playing"
           /\ rooms'[ev'.roomId].startArticle = ev'.start
           /\ rooms'[ev'.roomId].targetArticle = ev'.target
           /\ rooms'[ev'.roomId].players = rooms[ev'.roomId].players
           /\ \A p \in Members(rooms[ev'.roomId]) :
                /\ rooms'[ev'.roomId].playerStates[p].clicks = 0
                /\ rooms'[ev'.roomId].playerStates[p].currentArticle = ev'.start
                /\ rooms'[ev'.roomId].playerStates[p].history = <<ev'.start>>
                /\ rooms'[ev'.roomId].playerStates[p].name = rooms[ev'.roomId].playerStates[p].name
           /\ Cardinality(out') = 1
           /\ \A m \in out' :
                /\ m.event = "game_started"
                /\ m.payload = [start |-> ev'.start, target |-> ev'.target]
                /\ Members(rooms[ev'.roomId]) \subseteq m.to)]_vars

\* C8 witness: a start of a room of three was accepted and broadcast to all three.
StartedRoomOfThree ==
    /\ ev.type = "start_game"
    /\ ev.roomId \in DOMAIN rooms
    /\ rooms[ev.roomId].gameState = "playing"
    /\ Cardinality(Members(rooms[ev.roomId])) = 3
    /\ \A p \in Members(rooms[ev.roomId]) :
          rooms[ev.roomId].playerStates[p].history = <<ev.start>>
    /\ \E m \in Sent("game_started") : m.to = Members(rooms[ev.roomId])

\* C9: a start for a room listing fewer than 2 players changes nothing and
\* broadcasts nothing; so no room goes to playing while it lists fewer than 2.
StartBelowTwoIgnored ==
    [][/\ (/\ ev'.type = "start_game"
           /\ ev'.roomId \in DOMAIN rooms
           /\ Len(rooms[ev'.roomId].players) < 2)
          => (rooms' = rooms /\ sockRooms' = sockRooms /\ out' = {} /\ ack' = {})
       /\ \A r \in DOMAIN rooms :
            (/\ Len(rooms[r].players) < 2
             /\ rooms[r].gameState # "playing"
             /\ r \in DOMAIN rooms')
            => rooms'[r].gameState # "playing"]_vars

\* C9 witness: a start was sent to a waiting room of one player, which is still waiting.
StartOfLoneRoomIgnored ==
    /\ ev.type = "start_game"
    /\ ev.roomId \in DOMAIN rooms
    /\ Len(rooms[ev.roomId].players) = 1
    /\ ev.conn \in Members(rooms[ev.roomId])
    /\ rooms[ev.roomId].gameState = "waiting"
    /\ rooms[ev.roomId].startArticle = Undefined
    /\ out = {}

\* C10: the disconnect of a room's last remaining player removes the room from the
\* registry; a join naming a code that is not in the registry fails with "Room
\* not found" and changes nothing; a code stays out of the registry until a
\* create_room draws it.
LastLeaveDeletesRoom ==
    [][/\ ev'.type = "disconnect"
          => \A r \in DOMAIN rooms :
                Members(rooms[r]) = {ev'.conn} => r \notin DOMAIN rooms'
       /\ (ev'.type = "join_room" /\ ev'.roomId \notin DOMAIN rooms)
          => (/\ ack' = {Callback(ev'.conn, [error |-> "Room not found"])}
              /\ out' = {}
              /\ rooms' = rooms)
       /\ \A r \in RoomIds :
            (r \notin DOMAIN rooms /\ r \in DOMAIN rooms') => Replaced(r)]_vars

\* C10 witness: the disconnect of a room's last player was processed: player_left
\* for its code carries an empty roster and the code is out of the registry.
LastPlayerLeftAndRoomGone ==
    /\ ev.type = "disconnect"
    /\ \E m \in Sent("player_left") :
          /\ m.payload.players = <<>>
          /\ m.roomId \notin DOMAIN rooms

\* C11: every room in the registry lists at least one player.
NoEmptyRoom ==
    \A r \in DOMAIN rooms : Len(rooms[r].players) >= 1

\* C11 witness: a disconnect emptied one room, which is gone, and left another
\* room, which still lists a player, in the registry.
EmptiedRoomGoneOtherKept ==
    /\ ev.type = "disconnect"
    /\ \E m \in Sent("player_left") :
          /\ m.payload.players = <<>>
          /\ m.roomId \notin DOMAIN rooms
    /\ \E r \in DOMAIN rooms : Len(rooms[r].players) >= 1

\* C12: no handler raises an error that nothing catches.  The code breaks it:
\* game_win reads room.playerStates[socket.id].name of a sender that has no
\* PlayerState in the room.
NoUncaughtError == ~uncaught

\* C13: a game_win naming a playing room, from a connection the room does not
\* list, emits nothing, changes nothing and raises nothing.  The code breaks it:
\* the handler throws.
StrangerWinIgnored ==
    [][(/\ ev'.type = "game_win"
        /\ ev'.roomId \in DOMAIN rooms
        /\ rooms[ev'.roomId].gameState = "playing"
        /\ ev'.conn \notin Members(rooms[ev'.roomId]))
       => (/\ out' = {}
           /\ ack' = {}
           /\ rooms' = rooms
           /\ sockRooms' = sockRooms
           /\ uncaught' = uncaught)]_vars

\* C14: an update_progress naming a playing room, from a connection the room
\* does not list, changes no PlayerState (nothing of any room) and emits no
\* opponent_progress.
StrangerProgressIgnored ==
    [][(/\ ev'.type = "update_progress"
        /\ ev'.roomId \in DOMAIN rooms
        /\ rooms[ev'.roomId].gameState = "playing"
        /\ ev'.conn \notin Members(rooms[ev'.roomId]))
       => (/\ rooms' = rooms
           /\ out' = {}
           /\ ~uncaught')]_vars

\* C14 witness: an update_progress from a connection outside the roster of the
\* playing room it names has been handled.
StrangerSentProgress ==
    /\ ev.type = "update_progress"
    /\ ev.roomId \in DOMAIN rooms
    /\ rooms[ev.roomId].gameState = "playing"
    /\ ev.conn \notin Members(rooms[ev.roomId])
    /\ Len(rooms[ev.roomId].players) >= 2
    /\ out = {}

\* C15: an update_progress handled after its sender's disconnect changes no
\* room and no PlayerState and emits nothing.  The code breaks it: the handler
\* looks the sender up in playerStates, where disconnect left its entry, and
\* never in players.
LateProgressRejected ==
    [][(ev'.type = "update_progress" /\ status[ev'.conn] = "closed")
       => (rooms' = rooms /\ out' = {})]_vars

\* C16: the code given to a new room is the code of no room in the registry.
\* The code breaks it: create_room stores the room under the code it drew
\* without looking the code up.
CreateNeverCollides ==
    [][ev'.type = "create_room" => ev'.roomId \notin DOMAIN rooms]_vars

\* C17: a join naming a code that is not in the registry is answered "Room not
\* found" to the caller alone; no room is created or changed, no socket joins a
\* socket.io room and nothing is broadcast.
JoinUnknownRoomRefused ==
    [][(ev'.type = "join_room" /\ ev'.roomId \notin DOMAIN rooms)
       => (/\ ack' = {Callback(ev'.conn, [error |-> "Room not found"])}
           /\ out' = {}
           /\ rooms' = rooms
           /\ sockRooms' = sockRooms)]_vars

\* C17 witness: a join naming an absent code was answered "Room not found" while
\* another room stood in the registry.
UnknownRoomRefusedBesideRoom ==
    /\ ev.type = "join_room"
    /\ ev.roomId \notin DOMAIN rooms
    /\ ack = {Callback(ev.conn, [error |-> "Room not found"])}
    /\ out = {}
    /\ DOMAIN rooms # {}

\* C18: a join to a waiting room that lists 8 players is answered "Room is
\* full", a text that is neither "Room not found" nor "Game already started", to
\* the caller alone; the room and the socket.io rooms are unchanged and no
\* player_joined goes out.
JoinFullRoomRefused ==
    [][(/\ ev'.type = "join_room"
        /\ ev'.roomId \in DOMAIN rooms
        /\ rooms[ev'.roomId].gameState = "waiting"
        /\ Len(rooms[ev'.roomId].players) >= 8)
       => (/\ ack' = {Callback(ev'.conn, [error |-> "Room is full"])}
           /\ "Room is full" \notin {"Room not found", "Game already started"}
           /\ out' = {}
           /\ rooms' = rooms
           /\ sockRooms' = sockRooms)]_vars

\* C18 witness: a waiting room of 8 refused, as "Room is full", a connection it
\* does not list.
WaitingFullRoomRefusedStranger ==
    /\ ev.type = "join_room"
    /\ ev.roomId \in DOMAIN rooms
    /\ rooms[ev.roomId].gameState = "waiting"
    /\ Len(rooms[ev.roomId].players) = 8
    /\ ev.conn \notin Members(rooms[ev.roomId])
    /\ ack = {Callback(ev.conn, [error |-> "Room is full"])}

\* C19: a join to a waiting room of fewer than 8 puts the joiner at the end of
\* players, gives it a PlayerState with clicks 0, no history and no current
\* article, and leaves every other PlayerState and the gameState as they were.
JoinAppendsFreshPlayer ==
    [][(/\ ev'.type = "join_room"
        /\ ev'.roomId \in DOMAIN rooms
        /\ rooms[ev'.roomId].gameState = "waiting"
        /\ Len(rooms[ev'.roomId].players) < 8)
       => LET r == ev'.roomId
              c == ev'.conn
          IN /\ r \in DOMAIN rooms'
             /\ rooms'[r].players = rooms[r].players \o <<c>>
             /\ DOMAIN rooms'[r].playerStates = DOMAIN rooms[r].playerStates \cup {c}
             /\ rooms'[r].playerStates[c].clicks = 0
             /\ rooms'[r].playerStates[c].history = <<>>
             /\ rooms'[r].playerStates[c].currentArticle = ""
             /\ \A p \in DOMAIN rooms[r].playerStates \ {c} :
                   rooms'[r].playerStates[p] = rooms[r].playerStates[p]
             /\ rooms'[r].gameState = rooms[r].gameState]_vars

\* C19 witness: a third connection joined, at the end of the list, a room back
\* in the lobby whose earlier member still carries the history of its game.
JoinedBehindPlayedMember ==
    /\ ev.type = "join_room"
    /\ ev.roomId \in DOMAIN rooms
    /\ Sent("player_joined") # {}
    /\ LET room == rooms[ev.roomId]
       IN /\ Len(room.players) = 3
          /\ room.players[3] = ev.conn
          /\ room.playerStates[ev.conn].history = <<>>
          /\ \E p \in Members(room) \ {ev.conn} : room.playerStates[p].history # <<>>

\* The characters of a username, and the string of a character sequence.
Spelling(s) ==
    CASE s = "" -> <<>>
      [] s = " " -> <<" ">>
      [] s = "Ann" -> <<"A", "n", "n">>
      [] s = " Ann " -> <<" ", "A", "n", "n", " ">>
RECURSIVE Spelled(_)
Spelled(cs) == IF cs = <<>> THEN "" ELSE Head(cs) \o Spelled(Tail(cs))
\* String.prototype.trim on a character sequence: blanks dropped at both ends.
RECURSIVE TrimStart(_)
TrimStart(cs) == IF cs # <<>> /\ Head(cs) = " " THEN TrimStart(Tail(cs)) ELSE cs
RECURSIVE TrimEnd(_)
TrimEnd(cs) ==
    IF cs # <<>> /\ cs[Len(cs)] = " " THEN TrimEnd(SubSeq(cs, 1, Len(cs) - 1)) ELSE cs
Trim(s) == Spelled(TrimEnd(TrimStart(Spelling(s))))
\* Every adjective, a space, every animal.
VocabularyNames ==
    {ADJECTIVES[i] \o " " \o ANIMALS[j] : i \in 1..Len(ADJECTIVES), j \in 1..Len(ANIMALS)}

\* C20: the name create_room and join_room give the player is the requested
\* name trimmed when that is not empty, else an adjective, a space and an
\* animal of the two vocabularies.  The code breaks it: the handlers take
\* username || generateName() and never trim.
NameIsTrimmedOrGenerated ==
    [][(\/ ev'.type = "create_room"
        \/ /\ ev'.type = "join_room"
           /\ ev'.roomId \in DOMAIN rooms
           /\ rooms[ev'.roomId].gameState = "waiting"
           /\ Len(rooms[ev'.roomId].players) < 8)
       => LET name == rooms'[ev'.roomId].playerStates[ev'.conn].name
          IN IF Trim(ev'.username) # ""
             THEN name = Trim(ev'.username)
             ELSE name \in VocabularyNames]_vars

\* C21: create_room leaves, under the code it drew, a waiting room whose players
\* are the creator alone, with one PlayerState (clicks 0, no history, no current
\* article), and answers the creator alone with the code and the one-entry
\* roster {id, name} of the creator; nothing is broadcast.
CreateMakesWaitingRoomOfOne ==
    [][ev'.type = "create_room"
       => LET r == ev'.roomId
              c == ev'.conn
          IN /\ r \in DOMAIN rooms'
             /\ rooms'[r].gameState = "waiting"
             /\ rooms'[r].players = <<c>>
             /\ DOMAIN rooms'[r].playerStates = {c}
             /\ rooms'[r].playerStates[c].clicks = 0
             /\ rooms'[r].playerStates[c].history = <<>>
             /\ rooms'[r].playerStates[c].currentArticle = ""
             /\ ack' = {Callback(c, [roomId |-> r,
                                     players |-> <<[id |-> c,
                                                    name |-> rooms'[r].playerStates[c].name]>>])}
             /\ out' = {}]_vars

\* C21 witness: a create_room that sent no username was answered with the
\* creator's one-entry roster, its name generated.
CreatedRoomOfOneWithGeneratedName ==
    /\ ev.type = "create_room"
    /\ ev.username = ""
    /\ ev.roomId \in DOMAIN rooms
    /\ rooms[ev.roomId].players = <<ev.conn>>
    /\ rooms[ev.roomId].gameState = "waiting"
    /\ \E n \in generateName :
          ack = {Callback(ev.conn, [roomId |-> ev.roomId,
                                    players |-> <<[id |-> ev.conn, name |-> n]>>])}

\* C22: a return_to_lobby naming a playing room puts it in waiting and sends
\* reset_to_lobby to every connection the room lists; a waiting room takes a
\* start (two players or more: playing again) and a join (below 8: the joiner
\* is listed), so the round can be played again.
ReturnToLobbyReopensRoom ==
    [][/\ (/\ ev'.type = "return_to_lobby"
           /\ ev'.roomId \in DOMAIN rooms
           /\ rooms[ev'.roomId].gameState = "playing")
          => (/\ ev'.roomId \in DOMAIN rooms'
              /\ rooms'[ev'.roomId].gameState = "waiting"
              /\ \E m \in out' :
                    /\ m.event = "reset_to_lobby"
                    /\ m.roomId = ev'.roomId
                    /\ Members(rooms'[ev'.roomId]) \subseteq m.to)
       /\ (/\ ev.type = "return_to_lobby"
           /\ ev.roomId \in DOMAIN rooms
           /\ ev'.type = "start_game"
           /\ ev'.roomId = ev.roomId
           /\ Len(rooms[ev.roomId].players) >= 2)
          => rooms'[ev.roomId].gameState = "playing"
       /\ (/\ ev.type = "return_to_lobby"
           /\ ev.roomId \in DOMAIN rooms
           /\ ev'.type = "join_room"
           /\ ev'.roomId = ev.roomId
           /\ Len(rooms[ev.roomId].players) < 8)
          => ev'.conn \in Members(rooms'[ev.roomId])]_vars

\* C22 witness: a room of two that was played in (a member's history holds the
\* start article and one more) is back in waiting after a member's
\* return_to_lobby, and reset_to_lobby went to both members.
PlayedRoomBackInLobby ==
    /\ ev.type = "return_to_lobby"
    /\ ev.roomId \in DOMAIN rooms
    /\ LET room == rooms[ev.roomId]
       IN /\ room.gameState = "waiting"
          /\ Cardinality(Members(room)) >= 2
          /\ ev.conn \in Members(room)
          /\ \E p \in Members(room) : Len(room.playerStates[p].history) >= 2
          /\ \E m \in Sent("reset_to_lobby") : Members(room) \subseteq m.to

\* C23: a return_to_lobby that names a code out of the registry, or comes from a
\* connection the named room does not list, changes no room and sends no
\* reset_to_lobby.  The code breaks it: the handler tests the room only.
StrangerReturnIgnored ==
    [][(/\ ev'.type = "return_to_lobby"
        /\ \/ ev'.roomId \notin DOMAIN rooms
           \/ ev'.conn \notin Members(rooms[ev'.roomId]))
       => (/\ rooms' = rooms
           /\ out' = {})]_vars

\* C24: the disconnect of a connection a room lists, whatever the gameState,
\* takes it out of players with the others in their order, sends player_left to
\* every player that remains, and leaves gameState, startArticle, targetArticle
\* and the PlayerStates of the remaining players as they were (a room left with
\* no player is deleted).
DisconnectRemovesOnlyLeaver ==
    [][ev'.type = "disconnect"
       => \A r \in DOMAIN rooms :
             ev'.conn \in Members(rooms[r])
             => IF Members(rooms[r]) = {ev'.conn} THEN r \notin DOMAIN rooms'
                ELSE /\ r \in DOMAIN rooms'
                     /\ rooms'[r].players =
                            SelectSeq(rooms[r].players, LAMBDA p : p # ev'.conn)
                     /\ rooms'[r].gameState = rooms[r].gameState
                     /\ rooms'[r].startArticle = rooms[r].startArticle
                     /\ rooms'[r].targetArticle = rooms[r].targetArticle
                     /\ \A p \in Members(rooms'[r]) :
                           rooms'[r].playerStates[p] = rooms[r].playerStates[p]
                     /\ \E m \in out' :
                           /\ m.event = "player_left"
                           /\ m.roomId = r
                           /\ m.payload.playerId = ev'.conn
                           /\ Members(rooms'[r]) \subseteq m.to]_vars

\* C24 witness: the second of three players of a playing room disconnected; the
\* first and the third remain, in that order, and both received player_left.
MiddlePlayerLeftPlayingRoom ==
    /\ ev.type = "disconnect"
    /\ \E r \in DOMAIN rooms :
          /\ rooms[r].gameState = "playing"
          /\ rooms[r].players = <<1, 3>>
          /\ ev.conn = 2
          /\ \E m \in Sent("player_left") : m.roomId = r /\ m.to = {1, 3}

\* C25: a roster sent to clients is the room's players after the change, as
\* {id, name} in players order: the join reply and player_joined carry the
\* players with the joiner, who is among the recipients of player_joined;
\* player_left carries the players without the leaver (none for a room the
\* leave emptied).
RosterSentAfterChange ==
    [][/\ (/\ ev'.type = "join_room"
           /\ ev'.roomId \in DOMAIN rooms
           /\ rooms[ev'.roomId].gameState = "waiting"
           /\ Len(rooms[ev'.roomId].players) < 8)
          => LET room == rooms'[ev'.roomId]
                 list == [i \in 1..Len(room.players) |->
                             [id |-> room.players[i],
                              name |-> room.playerStates[room.players[i]].name]]
             IN /\ list[Len(list)].id = ev'.conn
                /\ ack' = {Callback(ev'.conn, [success |-> TRUE, roomId |-> ev'.roomId,
                                               players |-> list])}
                /\ Cardinality(out') = 1
                /\ \A m \in out' :
                      /\ m.event = "player_joined"
                      /\ m.payload = [players |-> list]
                      /\ ev'.conn \in m.to
                      /\ Members(room) \subseteq m.to
       /\ ev'.type = "disconnect"
          => \A m \in out' :
                /\ m.event = "player_left"
                /\ ev'.conn \notin {m.payload.players[i].id : i \in DOMAIN m.payload.players}
                /\ IF m.roomId \in DOMAIN rooms'
                   THEN LET room == rooms'[m.roomId]
                        IN m.payload.players =
                              [i \in 1..Len(room.players) |->
                                  [id |-> room.players[i],
                                   name |-> room.playerStates[room.players[i]].name]]
                   ELSE m.payload.players = <<>>]_vars

\* C25 witness: a third connection joined; player_joined reached it and lists
\* three players, the joiner last.
ThirdJoinerGotRosterOfThree ==
    /\ ev.type = "join_room"
    /\ \E m \in Sent("player_joined") :
          /\ ev.conn \in m.to
          /\ Len(m.payload.players) = 3
          /\ m.payload.players[3].id = ev.conn
          /\ {m.payload.players[i].id : i \in 1..3} = {1, 2, 3}

\* C26: an update_progress or a game_win naming a code out of the registry or a
\* room that is not playing changes no room (no PlayerState, no gameState) and
\* sends neither opponent_progress nor player_won.
ProgressAndWinNeedPlaying ==
    [][(/\ ev'.type \in {"update_progress", "game_win"}
        /\ \/ ev'.roomId \notin DOMAIN rooms
           \/ rooms[ev'.roomId].gameState # "playing")
       => (/\ rooms' = rooms
           /\ out' = {}
           /\ ~uncaught')]_vars

\* C26 witness: a member's update_progress to its waiting room was handled and
\* the article it reported is not in its PlayerState.
MemberProgressInLobbyIgnored ==
    /\ ev.type = "update_progress"
    /\ ev.roomId \in DOMAIN rooms
    /\ rooms[ev.roomId].gameState = "waiting"
    /\ ev.conn \in Members(rooms[ev.roomId])
    /\ rooms[ev.roomId].playerStates[ev.conn].currentArticle # ev.currentArticle
    /\ out = {}

\* C27: a join_room, start_game, update_progress, game_win or return_to_lobby
\* naming one room leaves every other room as it was, and nothing it sends
\* reaches a connection that is listed in other rooms only.  The code breaks
\* it: a connection whose room was replaced by a create_room that drew the same
\* code stays in the socket.io room of that code.
OtherRoomsUntouched ==
    [][ev'.type \in {"join_room", "start_game", "update_progress", "game_win",
                     "return_to_lobby"}
       => /\ \A r \in DOMAIN rooms \ {ev'.roomId} :
                r \in DOMAIN rooms' /\ rooms'[r] = rooms[r]
          /\ \A m \in out' : \A c \in m.to :
                (\E r \in DOMAIN rooms' \ {ev'.roomId} : c \in Members(rooms'[r]))
                => /\ ev'.roomId \in DOMAIN rooms'
                   /\ c \in Members(rooms'[ev'.roomId])]_vars

\* C28: between two starts a player's clicks are never negative and never go
\* down, whatever counts the update_progress events report.  The code breaks
\* it: the handler stores the reported count as it comes.
ClicksNeverDecrease ==
    [][ev'.type = "update_progress"
       => \A r \in DOMAIN rooms \cap DOMAIN rooms' :
             \A p \in DOMAIN rooms[r].playerStates :
                /\ rooms'[r].playerStates[p].clicks >= 0
                /\ rooms'[r].playerStates[p].clicks >= rooms[r].playerStates[p].clicks]_vars

\* C29: an update_progress of a member of a playing room puts the reported
\* article at the end of the member's history and in its currentArticle and
\* changes no other PlayerState; apart from start_game no event takes away or
\* rewrites what a listed player's history holds.  The code breaks it: a
\* join_room of a connection the room already lists replaces its PlayerState.
HistoryAppendOnly ==
    [][/\ (/\ ev'.type = "update_progress"
           /\ ev'.roomId \in DOMAIN rooms
           /\ rooms[ev'.roomId].gameState = "playing"
           /\ ev'.conn \in Members(rooms[ev'.roomId]))
          => LET before == rooms[ev'.roomId].playerStates
                 after == rooms'[ev'.roomId].playerStates
             IN /\ after[ev'.conn].history =
                      before[ev'.conn].history \o <<ev'.currentArticle>>
                /\ after[ev'.conn].currentArticle = ev'.currentArticle
                /\ \A p \in DOMAIN before \ {ev'.conn} : after[p] = before[p]
       /\ \A r \in DOMAIN rooms \cap DOMAIN rooms' :
             (ev'.type # "start_game" /\ ~Replaced(r))
             => \A p \in Members(rooms[r]) \cap Members(rooms'[r]) :
                   LET h == rooms[r].playerStates[p].history
                       g == rooms'[r].playerStates[p].history
                   IN Len(h) <= Len(g) /\ SubSeq(g, 1, Len(h)) = h]_vars

\* C30: the name of a listed player stays what it was for as long as the room
\* lists the connection, repeated join_room of the same connection included.
\* The code breaks it: such a join_room resolves the name again and replaces
\* the PlayerState.
NameFixedWhileListed ==
    [][\A r \in DOMAIN rooms \cap DOMAIN rooms' :
          ~Replaced(r)
          => \A p \in Members(rooms[r]) \cap Members(rooms'[r]) :
                rooms'[r].playerStates[p].name = rooms[r].playerStates[p].name]_vars

\* C31: no players list holds a connection twice.  The code breaks it:
\* join_room pushes the sender without looking for it in the list.
NoDuplicatePlayers ==
    \A r \in DOMAIN rooms : Cardinality(Members(rooms[r])) = Len(rooms[r].players)

\* C32 as stated: every playing room lists at least 2 players, also after a
\* disconnect during the round.  It fails: disconnect takes the player out and
\* leaves gameState alone.
PlayingRoomHasTwoPlayers ==
    \A r \in DOMAIN rooms :
       rooms[r].gameState = "playing" => Len(rooms[r].players) >= 2

\* C32 amended: a room becomes playing only with at least 2 entries in players,
\* and a playing room lists at least 1 player, also after disconnects during
\* the round.
PlayingEnteredWithTwoKeptWithOne ==
    [][\A r \in DOMAIN rooms' :
          rooms'[r].gameState = "playing"
          => /\ Len(rooms'[r].players) >= 1
             /\ (r \notin DOMAIN rooms \/ rooms[r].gameState # "playing")
                => Len(rooms'[r].players) >= 2]_vars

\* C32 witness: a disconnect left a playing room with one player.
PlayingRoomLeftWithOne ==
    /\ ev.type = "disconnect"
    /\ \E m \in Sent("player_left") :
          /\ m.roomId \in DOMAIN rooms
          /\ rooms[m.roomId].gameState = "playing"
          /\ Len(rooms[m.roomId].players) = 1
          /\ Len(m.payload.players) = 1

\* C33: a start_game naming a room that is playing changes nothing of the room
\* (articles, clicks, currentArticle, history) and sends no game_started.  The
\* code breaks it: the handler never reads gameState.
StartWhilePlayingIgnored ==
    [][(/\ ev'.type = "start_game"
        /\ ev'.roomId \in DOMAIN rooms
        /\ rooms[ev'.roomId].gameState = "playing")
       => (/\ rooms' = rooms
           /\ out' = {})]_vars

\* C34: a start_game naming a room that does not list the sender leaves the
\* room's gameState, articles and PlayerStates as they were and sends nothing.
\* The code breaks it: the handler never looks for the sender in the room.
StrangerStartIgnored ==
    [][(/\ ev'.type = "start_game"
        /\ ev'.roomId \in DOMAIN rooms
        /\ ev'.conn \notin Members(rooms[ev'.roomId]))
       => (/\ rooms' = rooms
           /\ out' = {})]_vars

\* C35: after every event the connections in the socket.io room of a code are
\* the connections the registry's room of that code lists (none when the code
\* is out of the registry), so no connection outside the roster receives the
\* room's broadcasts.  The code breaks it: a create_room that draws a code in
\* use replaces the room and leaves the old members in the socket.io room.
AudienceIsRoster ==
    \A r \in RoomIds :
       sockRooms[r] = IF r \in DOMAIN rooms THEN Members(rooms[r]) ELSE {}

\* C36: the gameState of every room is waiting or playing, never finished.
NeverFinished ==
    \A r \in DOMAIN rooms : rooms[r].gameState \in {"waiting", "playing"}

\* C36 witness: a member's game_win was announced to its room, which is still
\* playing, and the winner's history holds more than the start article.
WinAnnouncedRoomNotFinished ==
    /\ ev.type = "game_win"
    /\ ev.roomId \in DOMAIN rooms
    /\ rooms[ev.roomId].gameState = "playing"
    /\ ev.conn \in Members(rooms[ev.roomId])
    /\ Len(rooms[ev.roomId].playerStates[ev.conn].history) >= 2
    /\ Sent("player_won") # {}

\* C37: once a connection's disconnect is handled no room of the registry lists
\* it, in however many rooms it was, and every room it was the only player of
\* is out of the registry.
DisconnectedIsListedNowhere ==
    [][/\ \A c \in Conns :
             status'[c] = "closed"
             => \A r \in DOMAIN rooms' : c \notin Members(rooms'[r])
       /\ ev'.type = "disconnect"
          => \A r \in DOMAIN rooms :
                Members(rooms[r]) = {ev'.conn} => r \notin DOMAIN rooms']_vars

\* C37 witness: a connection listed in two rooms disconnected; player_left went
\* out for both, the room it was alone in is gone and the other remains.
LeftTwoRoomsOneDeleted ==
    /\ ev.type = "disconnect"
    /\ Cardinality(Sent("player_left")) = 2
    /\ \E m \in Sent("player_left") : m.roomId \notin DOMAIN rooms
    /\ \E m \in Sent("player_left") :
          /\ m.roomId \in DOMAIN rooms
          /\ ev.conn \notin Members(rooms[m.roomId])

====
